---- MODULE Spec2Model ----
(***************************************************************************)
(* RADOX (Node.js): server.js, src/services/pneumoniaDetector.js,         *)
(* src/services/reportGenerator.js and src/utils/imageProcessor.js as a    *)
(* state machine, and the reading of a prediction by the two frontends.    *)
(*                                                                         *)
(* Numbers that are probabilities (confidence, threshold) are kept in      *)
(* hundredths: 0.85 is 85.  Times are in milliseconds.                     *)
(* The label 'Neumonía' is written "Neumonia" (ASCII).                     *)
(***************************************************************************)
EXTENDS Integers, Sequences, FiniteSets, TLC

VARIABLES
  env,        \* process.env as read by the server and the two services
  server,     \* position of RadoxServer.start()
  detector,   \* PneumoniaDetector: isInitialized, useMockModel
  generator,  \* ReportGenerator: apiToken, modelName, isInitialized
  uploads,    \* files of UPLOAD_DIR
  mtime,      \* modification time given to the last file written
  req,        \* per client: the request in flight and its response
  gate,       \* inputs and output of one evaluation of the two decision gates
  engine,     \* callers of PneumoniaDetector.initialize and the 'init' runs spawned
  framing,    \* one prediction as the server and the two frontends read it
  assembly,   \* one text given to processReport, two calls of generateFallbackReport
  client,     \* RadoxApp of public/js/app.js
  patients    \* the demo patient store of the Next.js frontend

vars == <<env, server, detector, generator, uploads, mtime, req, gate, engine, framing,
          assembly, client, patients>>
units == <<assembly, client, patients>>
coreVars == <<env, server, detector, generator, uploads, mtime, req, gate, engine, framing>>
serverVars == <<env, server, detector, generator, uploads, mtime, req, engine, framing,
                assembly, client, patients>>

---------------------------------------------------------------------------
(* JavaScript values and the comparisons the gates use *)

Num(n) == [t |-> "number", v |-> n]
NaN == [t |-> "NaN", v |-> 0]
Undefined == [t |-> "undefined", v |-> 0]

\* ToNumber of the abstract relational comparison: undefined and a string
\* that is no numeral are NaN, null is 0
ToNumber(x) ==
  CASE x.t = "number" -> x
    [] x.t = "null" -> Num(0)
    [] OTHER -> NaN

\* a < b of JavaScript: false when either side is NaN
JsLess(a, b) ==
  LET x == ToNumber(a)
      y == ToNumber(b)
  IN  x.t = "number" /\ y.t = "number" /\ x.v < y.v

\* a >= b of JavaScript: false when either side is NaN
JsGeq(a, b) ==
  LET x == ToNumber(a)
      y == ToNumber(b)
  IN  x.t = "number" /\ y.t = "number" /\ x.v >= y.v

\* a string as the tuple of its characters
Digits == <<"0", "1", "2", "3", "4", "5", "6", "7", "8", "9">>
IsDigit(c) == \E i \in 1..10 : Digits[i] = c
DigitVal(c) == (CHOOSE i \in 1..10 : Digits[i] = c) - 1

\* number of leading digits of s from position i on
RECURSIVE DigitRun(_, _)
DigitRun(s, i) ==
  IF i <= Len(s) /\ IsDigit(s[i]) THEN 1 + DigitRun(s, i + 1) ELSE 0

\* value of the digits s[i..i+n-1]
RECURSIVE DigitsValue(_, _, _)
DigitsValue(s, i, n) ==
  IF n = 0 THEN 0 ELSE 10 * DigitsValue(s, i, n - 1) + DigitVal(s[i + n - 1])

RECURSIVE SkipSpaces(_, _)
SkipSpaces(s, i) ==
  IF i <= Len(s) /\ s[i] = " " THEN SkipSpaces(s, i + 1) ELSE i

\* parseFloat(s), in hundredths: leading blanks, an optional sign, the
\* longest decimal numeral that prefixes the rest, NaN when there is none.
\* Decimals after the second are dropped (the strings used have at most two).
ParseFloat(s) ==
  LET i0 == SkipSpaces(s, 1)
      neg == i0 <= Len(s) /\ s[i0] = "-"
      i1 == IF i0 <= Len(s) /\ s[i0] \in {"-", "+"} THEN i0 + 1 ELSE i0
      n == DigitRun(s, i1)
      dot == i1 + n <= Len(s) /\ s[i1 + n] = "."
      m == IF dot THEN DigitRun(s, i1 + n + 1) ELSE 0
      whole == DigitsValue(s, i1, n)
      d1 == IF m >= 1 THEN DigitVal(s[i1 + n + 1]) ELSE 0
      d2 == IF m >= 2 THEN DigitVal(s[i1 + n + 2]) ELSE 0
      abs == 100 * whole + 10 * d1 + d2
  IN  IF n = 0 /\ m = 0 THEN NaN
      ELSE Num(IF neg THEN 0 - abs ELSE abs)

\* String(undefined): what parseFloat sees when the variable is not set
UnsetEnv == <<"u", "n", "d", "e", "f", "i", "n", "e", "d">>

---------------------------------------------------------------------------
(* The two decision gates of server.js *)

PositiveLabel == "Neumonia"

\* mutant: the confidence must exceed the threshold
PuedeGenerarInformeStrict(prediction, thresholdEnv) ==
  /\ prediction.label = PositiveLabel
  /\ JsLess(ParseFloat(thresholdEnv), prediction.confidence)

\* /api/analyze: resultado.puedeGenerarInforme
PuedeGenerarInforme(prediction, thresholdEnv) ==
  /\ prediction.label = PositiveLabel
  /\ JsGeq(prediction.confidence, ParseFloat(thresholdEnv))

\* /api/generate-report: the status the two precondition checks answer with,
\* 0 when both let the request through
ReportPrecondition(diagnostico, confianza, thresholdEnv) ==
  IF diagnostico = "" \/ diagnostico # PositiveLabel THEN 400
  ELSE IF JsLess(confianza, ParseFloat(thresholdEnv)) THEN 400
  ELSE 0

---------------------------------------------------------------------------
(* Configuration and inputs *)

Clients == {"c1", "c2"}
\* the clients that send POST /api/generate-report; the others only analyze
Reporters == {"c1"}
\* the number of POST /api/analyze the clients send, all together
MaxAnalyses == 2

\* CONFIDENCE_THRESHOLD of config.env: not set, 0.8 (the documented value)
ServerThresholds == {UnsetEnv, <<"0", ".", "8">>}

\* HUGGINGFACE_TOKEN: not set, the placeholder of config.env, a real token
Tokens == {"", "your_hf_token_here", "hf_live_token"}

\* MEDGEMMA_MODEL: not set, the subprocess model
ModelNames == {"", "Google/MedGemma-4b-it"}

DefaultModel == "google/medgemma-7b"
MedGemma4bIT == "google/medgemma-4b-it"

\* String.prototype.toLowerCase on the strings of the model
ToLowerCase(s) ==
  CASE s = "Google/MedGemma-4b-it" -> "google/medgemma-4b-it"
    [] s = "Neumonia" -> "neumonia"
    [] s = "NEUMONIA" -> "neumonia"
    [] s = "Normal" -> "normal"
    [] s = ".PNG" -> ".png"
    [] OTHER -> s

\* what the CNN of python_cnn_bridge.py answers for a radiograph
CnnNormal == [label |-> "Normal", confidence |-> Num(90)]
CnnNeumonia == [label |-> "Neumonia", confidence |-> Num(85)]

\* the uploaded files a client may send: extension of the original name,
\* declared MIME type, whether sharp can decode the bytes, width and height
\* in pixels, the CNN's answer for the picture
Images ==
  { [ext |-> ".jpg", mime |-> "image/jpeg", decodable |-> TRUE, width |-> 1024, height |-> 1024,
     cnn |-> CnnNormal],
    [ext |-> ".jpg", mime |-> "image/jpeg", decodable |-> TRUE, width |-> 50, height |-> 50,
     cnn |-> CnnNeumonia],
    [ext |-> ".dcm", mime |-> "application/dicom", decodable |-> FALSE, width |-> 512, height |-> 512,
     cnn |-> CnnNeumonia],
    [ext |-> ".gif", mime |-> "image/gif", decodable |-> TRUE, width |-> 640, height |-> 480,
     cnn |-> CnnNormal],
    [ext |-> ".jpgx", mime |-> "image/jpeg", decodable |-> TRUE, width |-> 640, height |-> 480,
     cnn |-> CnnNormal] }
NoImage ==
  [ext |-> "", mime |-> "", decodable |-> FALSE, width |-> 0, height |-> 0,
   cnn |-> [label |-> "", confidence |-> Undefined]]

\* bodies of POST /api/generate-report
Diagnosticos == {"Neumonia", "Normal", ""}
Confianzas == {Num(85), Num(50), Undefined}

\* what the Hugging Face endpoint can answer to one axios.post
HttpOutcomes == {"text", "empty", "503", "error", "timeout"}
\* how the python process of PneumoniaDetector.callPythonBridge('init') ends
BridgeOutcomes ==
  {"spawn_error", "exit_nonzero", "bad_json", "success_false", "success_true"}
\* what testConnection's axios.post ends with
ConnectionOutcomes == {"ok", "503", "error"}

---------------------------------------------------------------------------
(* ReportGenerator *)

maxRetries == 3
retryDelay == 2000
requestTimeout == 30000

DisclaimerIA ==
  "Este informe fue generado por inteligencia artificial y debe ser revisado por un profesional medico cualificado antes de tomar decisiones clinicas."
DisclaimerDemo ==
  "IMPORTANTE: Este informe fue generado en modo demostracion. Para uso clinico real, configure el token de Hugging Face valido. Este resultado NO debe usarse para tomar decisiones medicas."

\* A text is the sequence of its pieces: "H" a spelling of the word
\* hallazgos, "R" of recomendaciones, "I" of impresion, "w" any other run of
\* non-blank characters, " " white space; a fixed sentence is one piece.
Anchors == {"H", "R", "I"}

\* String.prototype.trim
RECURSIVE Trim(_)
Trim(t) ==
  IF t = <<>> THEN t
  ELSE IF Head(t) = " " THEN Trim(Tail(t))
  ELSE IF t[Len(t)] = " " THEN Trim(SubSeq(t, 1, Len(t) - 1))
  ELSE t

\* index of the first piece of t that is in set, 0 when there is none
FirstIndex(t, set) ==
  IF \E i \in 1..Len(t) : t[i] \in set
    THEN CHOOSE i \in 1..Len(t) : t[i] \in set /\ \A k \in 1..(i - 1) : t[k] \notin set
    ELSE 0

FindingsDefault == <<"Ver informe completo">>
RecommendationsDefault == <<"Consultar con especialista en neumologia">>

\* extractFindings: /hallazgos[\s\S]*?(?=recomendaciones|impresion|$)/i, the
\* leftmost match, as short as the lookahead allows, trimmed
ExtractFindings(report) ==
  LET i == FirstIndex(report, {"H"})
      rest == SubSeq(report, i + 1, Len(report))
      j == FirstIndex(rest, {"R", "I"})
  IN  IF i = 0 THEN FindingsDefault
      ELSE Trim(SubSeq(report, i, IF j = 0 THEN Len(report) ELSE i + j - 1))

\* mutant: no placeholder when the text has no recomendaciones
ExtractRecommendationsNoDefault(report) ==
  LET i == FirstIndex(report, {"R"})
  IN  IF i = 0 THEN <<>> ELSE Trim(SubSeq(report, i, Len(report)))

\* extractRecommendations: /recomendaciones[\s\S]*$/i, trimmed
ExtractRecommendations(report) ==
  LET i == FirstIndex(report, {"R"})
  IN  IF i = 0 THEN RecommendationsDefault ELSE Trim(SubSeq(report, i, Len(report)))

\* the keys of the object processReport and generateFallbackReport return
ReportKeys ==
  {"resumenEjecutivo", "informeCompleto", "hallazgos", "recomendaciones",
   "metadatos", "disclaimer"}

NoInforme ==
  [kind |-> "none", keys |-> {}, informeCompleto |-> <<>>,
   hallazgos |-> <<>>, recomendaciones |-> <<>>, disclaimer |-> "",
   modeloIA |-> "", tipoInforme |-> "", diagnosticoIA |-> "",
   confianzaDeteccion |-> Undefined]

\* constructor: modelName = process.env.MEDGEMMA_MODEL || 'google/medgemma-7b'
NewGenerator(e) ==
  [apiToken |-> e.HUGGINGFACE_TOKEN,
   modelName |-> IF e.MEDGEMMA_MODEL = "" THEN DefaultModel ELSE e.MEDGEMMA_MODEL,
   isInitialized |-> FALSE]

\* !apiToken || apiToken === 'your_hf_token_here' || apiToken === 'your2_hf_token_here'
TokenMissing(g) ==
  g.apiToken \in {"", "your_hf_token_here", "your2_hf_token_here"}

\* (modelName || '').toLowerCase() === 'google/medgemma-4b-it'
UsesMedGemma4bIT(g) == ToLowerCase(g.modelName) = MedGemma4bIT

\* processReport: the structured report around the text the service
\* returned (resumenEjecutivo, fechaGeneracion and version are left out)
ProcessReport(rawReport, data, g) ==
  [kind |-> "object", keys |-> ReportKeys, informeCompleto |-> rawReport,
   hallazgos |-> ExtractFindings(rawReport),
   recomendaciones |-> ExtractRecommendations(rawReport),
   disclaimer |-> DisclaimerIA,
   modeloIA |-> g.modelName, tipoInforme |-> "",
   diagnosticoIA |-> data.diagnostico,
   confianzaDeteccion |-> data.confianza]

\* informeBasico of generateFallbackReport: title, HALLAZGOS RADIOLOGICOS,
\* IMPRESION DIAGNOSTICA with the date of the call, RECOMENDACIONES CLINICAS
\* (which mentions "Se recomienda"), limits and note
InformeBasico ==
  <<"w", " ", "H", " ", "w", " ", "I", " ", "w", " ", "R", " ", "w">>

\* generateFallbackReport: the template report (the date inside the text,
\* fechaGeneracion and version are left out)
GenerateFallbackReport(data) ==
  [kind |-> "object", keys |-> ReportKeys, informeCompleto |-> InformeBasico,
   hallazgos |-> <<"Analisis automatizado sugiere hallazgos compatibles">>,
   recomendaciones |-> <<"Evaluacion medica profesional OBLIGATORIA">>,
   disclaimer |-> DisclaimerDemo,
   modeloIA |-> "Sistema RADOX Demo", tipoInforme |-> "Demostracion",
   diagnosticoIA |-> data.diagnostico,
   confianzaDeteccion |-> data.confianza]

\* generateFallbackReport called at time now: new Date() is read for the
\* date written into informeBasico and for metadatos.fechaGeneracion
GenerateFallbackReportAt(data, now) ==
  GenerateFallbackReport(data) @@ [fechaAnalisis |-> now, fechaGeneracion |-> now]

\* generateReportWithMedGemma4bIT resolves with the trimmed stdout of the
\* python process: a bare string
MedGemmaOutput ==
  [kind |-> "string", keys |-> {}, informeCompleto |-> <<"w">>,
   hallazgos |-> <<>>, recomendaciones |-> <<>>,
   disclaimer |-> "", modeloIA |-> "", tipoInforme |-> "",
   diagnosticoIA |-> "", confianzaDeteccion |-> Undefined]

\* the text the Hugging Face endpoint generates
GeneratedText == <<" ", "H", " ", "w", " ", "R", " ", "w", " ">>

\* response.data && response.data[0] && response.data[0].generated_text
HasGeneratedText(outcome) == outcome = "text"

\* generated_text.trim()
TrimmedText(outcome) == IF outcome = "text" THEN Trim(GeneratedText) ELSE <<>>

\* mutant: one attempt more than maxRetries
MoreAttemptsOffByOne(attempt) == attempt <= maxRetries + 1

\* the loop condition of generateWithRetry
MoreAttempts(attempt) == attempt <= maxRetries

\* mutant: the fixed delay also while the model is loading
SleepMsFixed(outcome, attempt) ==
  IF outcome = "503" THEN retryDelay
  ELSE IF attempt < maxRetries THEN retryDelay
  ELSE 0

\* the catch block of generateWithRetry: the milliseconds slept after a
\* failed attempt, 0 when it does not sleep
SleepMs(outcome, attempt) ==
  IF outcome = "503" THEN retryDelay * attempt
  ELSE IF attempt < maxRetries THEN retryDelay
  ELSE 0

\* time one axios.post takes: the timeout option ends it after 30 s
Latency(outcome) == IF outcome = "timeout" THEN requestTimeout ELSE 0

---------------------------------------------------------------------------
(* PneumoniaDetector *)

NewDetector == [isInitialized |-> FALSE, useMockModel |-> "undefined"]

\* mutant: a failed initialization leaves the detector not initialized
DetectorAfterInitFailsClosed(outcome) ==
  [isInitialized |-> outcome = "success_true",
   useMockModel |-> IF outcome = "success_true" THEN "false" ELSE "true"]

\* initialize after callPythonBridge('init') ended: a rejected promise
\* (spawn error, exit code # 0, stdout that is no JSON) lands in the catch
\* block, a parsed answer sets useMockModel from its success field
DetectorAfterInit(outcome) ==
  [isInitialized |-> TRUE,
   useMockModel |-> IF outcome = "success_true" THEN "false" ELSE "true"]

NoPrediction == [label |-> "", confidence |-> Undefined, status |-> ""]

\* the literal predict returns when useMockModel is false (pythonPredict is
\* commented out)
SimulatedPrediction ==
  [label |-> "Neumonia", confidence |-> Num(85), status |-> "mock"]

\* predict(imagePath): "ok" with a prediction, or "throw" with a message.
\* The class defines no mockPredict (line 137 is a comment), so the call on
\* line 81 is a call of undefined.
Predict(d) ==
  IF ~d.isInitialized
    THEN [result |-> "throw", error |-> "El detector no esta inicializado",
          prediction |-> NoPrediction]
  ELSE IF d.useMockModel = "true"
    THEN [result |-> "throw", error |-> "TypeError: this.mockPredict is not a function",
          prediction |-> NoPrediction]
  ELSE [result |-> "ok", error |-> "", prediction |-> SimulatedPrediction]

\* mutant: a failed prediction marks the detector as not initialized
DetectorAfterPredictResets(d, p) ==
  IF p.result = "throw" THEN [d EXCEPT !.isInitialized = FALSE] ELSE d

\* the detector's fields once predict has run with result p: predict assigns
\* to no field of this
DetectorAfterPredict(d, p) == d

---------------------------------------------------------------------------
(* ImageProcessor and the upload filter *)

SupportedFormats == {".jpg", ".jpeg", ".png", ".dcm", ".dicom"}

\* the characters of the extensions and MIME types of the model
Chars(s) ==
  CASE s = ".jpg" -> <<".", "j", "p", "g">>
    [] s = ".jpeg" -> <<".", "j", "p", "e", "g">>
    [] s = ".png" -> <<".", "p", "n", "g">>
    [] s = ".dcm" -> <<".", "d", "c", "m">>
    [] s = ".dicom" -> <<".", "d", "i", "c", "o", "m">>
    [] s = ".gif" -> <<".", "g", "i", "f">>
    [] s = ".jpgx" -> <<".", "j", "p", "g", "x">>
    [] s = "neumonia" -> <<"n", "e", "u", "m", "o", "n", "i", "a">>
    [] s = "normal" -> <<"n", "o", "r", "m", "a", "l">>
    [] s = "image/jpeg" -> <<"i", "m", "a", "g", "e", "/", "j", "p", "e", "g">>
    [] s = "image/png" -> <<"i", "m", "a", "g", "e", "/", "p", "n", "g">>
    [] s = "image/gif" -> <<"i", "m", "a", "g", "e", "/", "g", "i", "f">>
    [] s = "application/dicom" ->
         <<"a", "p", "p", "l", "i", "c", "a", "t", "i", "o", "n", "/", "d", "i", "c", "o", "m">>
    [] OTHER -> <<>>

\* pat occurs somewhere in s
Contains(s, pat) ==
  \E i \in 1..(Len(s) - Len(pat) + 1) : SubSeq(s, i, i + Len(pat) - 1) = pat

\* /jpeg|jpg|png|dicom|dcm/.test(s): an unanchored match
AllowedTest(s) ==
  \E pat \in { <<"j", "p", "e", "g">>, <<"j", "p", "g">>, <<"p", "n", "g">>,
                <<"d", "i", "c", "o", "m">>, <<"d", "c", "m">> } :
     Contains(Chars(s), pat)

\* multer fileFilter: the pattern on the extension, and the pattern on the
\* MIME type or the MIME type application/dicom
FileFilter(img) ==
  /\ AllowedTest(img.mime) \/ img.mime = "application/dicom"
  /\ AllowedTest(img.ext)

\* mutant: processImage without the test of the extension
ProcessImageErrorAnyFormat(img) ==
  IF ~img.decodable
    THEN IF img.ext \in {".dcm", ".dicom"}
           THEN "Error al procesar imagen DICOM"
           ELSE "Error al procesar imagen estandar"
  ELSE ""

\* processImage: "" when it wrote the processed file, else the error thrown
ProcessImageError(img) ==
  IF img.ext \notin SupportedFormats THEN "Formato de archivo no soportado"
  ELSE IF ~img.decodable
    THEN IF img.ext \in {".dcm", ".dicom"}
           THEN "Error al procesar imagen DICOM"
           ELSE "Error al procesar imagen estandar"
  ELSE ""

\* the smallest width and height validateImage accepts
minDimension == 100

\* validateImage: the errors it collects (file size and decoded format are
\* not modelled).  No caller: processImage and /api/analyze never run it.
ValidateImage(img) ==
  IF ~img.decodable THEN {"Error al validar imagen"}
  ELSE IF img.width < minDimension \/ img.height < minDimension
    THEN {"Imagen demasiado pequena (minimo 100x100)"}
  ELSE {}

\* the files /api/generate-report looks at when the body has no imagePath
IsImageName(f) == f.ext \in {".jpeg", ".jpg", ".png"}

\* the most recently modified image file of the upload directory, 0 if none
LatestFile(files) ==
  LET imgs == {f \in files : IsImageName(f) /\ f.mtime > 0}
  IN  IF imgs = {} THEN 0
      ELSE (CHOOSE f \in imgs : \A g \in imgs : g.mtime <= f.mtime).id

---------------------------------------------------------------------------
(* State *)

NoResultado ==
  [diagnostico |-> "", confianza |-> Undefined, puedeGenerarInforme |-> FALSE,
   imagePath |-> 0]
NoData == [diagnostico |-> "", confianza |-> Undefined, imagePath |-> 0]

\* a client that has sent nothing yet
IdleReq ==
  [pc |-> "idle",
   analyses |-> 0, img |-> NoImage, orig |-> 0, processed |-> 0, error |-> "",
   predictCalled |-> FALSE, prediction |-> NoPrediction,
   analyzeStatus |-> 0, resultado |-> NoResultado,
   data |-> NoData, rejected |-> FALSE,
   genCalled |-> FALSE, path |-> "",
   attempt |-> 0, calls |-> 0, last |-> "", timer |-> 0,
   failedAt |-> 0, startedAt |-> 0, elapsed |-> 0,
   reportStatus |-> 0, informe |-> NoInforme]

GateIdle ==
  [label |-> "", confidence |-> Undefined, thresholdEnv |-> UnsetEnv,
   analyzed |-> FALSE, puedeGenerarInforme |-> FALSE,
   reported |-> FALSE, status |-> 0]

\* the callers of detector.initialize()
InitCallers == {"k1", "k2"}
\* the number of times one caller calls initialize
MaxInitCalls == 2

\* no call of initialize made yet, no 'init' process spawned
EngineIdle ==
  [inits |-> 0, callers |-> [k \in InitCallers |-> [pc |-> "idle", calls |-> 0]]]

\* no text assembled, no template report made, the clock at 0
NoAssembly ==
  [raw |-> <<>>, data |-> [diagnostico |-> "Neumonia", confianza |-> Num(85), imagePath |-> 0],
   processed |-> NoInforme, now |-> 0, fallbacks |-> <<>>]

\* the files a user of the web client may pick or drop: the extension of
\* the name as written, the type the browser reports, the size in MiB
ClientFiles ==
  { [ext |-> ".jpg", type |-> "image/jpeg", size |-> 1],
    [ext |-> ".PNG", type |-> "", size |-> 2],
    [ext |-> ".txt", type |-> "image/jpeg", size |-> 1],
    [ext |-> ".gif", type |-> "image/gif", size |-> 1],
    [ext |-> ".jpg", type |-> "image/jpeg", size |-> 11] }
\* files[0] of an empty file list
NoFile == [ext |-> "", type |-> "", size |-> 0]

allowedTypes == {"image/jpeg", "image/jpg", "image/png", "application/dicom"}
allowedExtensions == {".jpg", ".jpeg", ".png", ".dcm", ".dicom"}
\* 10 * 1024 * 1024 bytes, in MiB
maxSize == 10
\* '.' + file.name.split('.').pop().toLowerCase()
FileExtension(f) == ToLowerCase(f.ext)

\* currentAnalysis = null; `file` records the file whose upload the result
\* answers (the result itself does not name it)
NoAnalysis == [exists |-> FALSE, file |-> NoFile, puedeGenerarInforme |-> FALSE]

\* the RadoxApp after its constructor: the fields of the object, the parts
\* of the page it switches, the file picker, the requests not answered yet
ClientIdle ==
  [selectedFile |-> NoFile, currentAnalysis |-> NoAnalysis, isAnalyzing |-> FALSE,
   analyzeBtnDisabled |-> TRUE, generateReportBtnDisabled |-> FALSE,
   reportSectionShown |-> FALSE, picker |-> FALSE,
   analyzeRequests |-> <<>>, reportRequests |-> <<>>]

\* resetResults()
ResetResults(c) ==
  [c EXCEPT !.reportSectionShown = FALSE, !.currentAnalysis = NoAnalysis]

\* displayFileInfo(file)
DisplayFileInfo(c) == [c EXCEPT !.analyzeBtnDisabled = FALSE]

\* handleFileSelect(file)
HandleFileSelect(c, f) ==
  IF f = NoFile THEN c
  ELSE IF f.type \notin allowedTypes /\ FileExtension(f) \notin allowedExtensions THEN c
  ELSE IF f.size > maxSize THEN c
  ELSE ResetResults(DisplayFileInfo([c EXCEPT !.selectedFile = f]))

\* analyzeImage goes on whatever is in progress
AnalyzeImageGuardNoFlag(c) == c.selectedFile # NoFile

\* analyzeImage goes past `if (!this.selectedFile || this.isAnalyzing) return`
AnalyzeImageGuard(c) == c.selectedFile # NoFile /\ ~c.isAnalyzing

\* generateReport goes past its first test
GenerateReportGuard(c) ==
  c.currentAnalysis.exists /\ c.currentAnalysis.puedeGenerarInforme

\* a study of the demo store; dates are written yyyymmdd, which orders them
\* as new Date(studyDate).getTime() does; confidence and imagePath are left out
StudyOf(id, date, diagnosis) ==
  [patientId |-> id, studyDate |-> date, diagnosis |-> diagnosis]

\* mockPatients as the module is loaded
mockPatients ==
  << [patientId |-> "P1234", name |-> <<"John Smith">>,
      studies |-> << StudyOf("P1234", 20250117, "Pneumonia Detected"),
                     StudyOf("P1234", 20250110, "Normal"),
                     StudyOf("P1234", 20241215, "Possible Pneumonia") >>],
     [patientId |-> "P5678", name |-> <<"Maria Garcia">>,
      studies |-> << StudyOf("P5678", 20250116, "Normal"),
                     StudyOf("P5678", 20250108, "Pneumonia Detected") >>],
     [patientId |-> "P9012", name |-> <<"Robert Johnson">>,
      studies |-> << StudyOf("P9012", 20250115, "Possible Pneumonia") >>],
     [patientId |-> "P3456", name |-> <<"Emily Chen">>,
      studies |-> << StudyOf("P3456", 20250114, "Normal"),
                     StudyOf("P3456", 20250107, "Normal"),
                     StudyOf("P3456", 20241220, "Pneumonia Detected") >>] >>

\* the index of the first record of the store with this id, 0 when none
\* (Array.prototype.find)
FindPatientById(ps, id) ==
  FirstIndex([i \in 1..Len(ps) |-> IF ps[i].patientId = id THEN "hit" ELSE "miss"], {"hit"})

\* puts a study before the first study that is not newer
RECURSIVE InsertByDate(_, _)
InsertByDate(x, sorted) ==
  IF sorted = <<>> THEN <<x>>
  ELSE IF Head(sorted).studyDate <= x.studyDate THEN <<x>> \o sorted
  ELSE <<Head(sorted)>> \o InsertByDate(x, Tail(sorted))

\* studies.sort((a, b) => new Date(b.studyDate).getTime() - new Date(a.studyDate).getTime()):
\* newest first, studies of one date in the order they had
RECURSIVE SortNewestFirst(_)
SortNewestFirst(s) ==
  IF s = <<>> THEN <<>> ELSE InsertByDate(Head(s), SortNewestFirst(Tail(s)))

\* addStudyToPatient(study, patientName)
AddStudyToPatient(ps, study, patientName) ==
  LET i == FindPatientById(ps, study.patientId)
  IN  IF i # 0
      THEN [ps EXCEPT ![i].studies = SortNewestFirst(<<study>> \o @)]
      ELSE Append(ps, [patientId |-> study.patientId,
                       name |-> IF patientName # "" THEN <<patientName>>
                                ELSE <<"Patient ", study.patientId>>,
                       studies |-> <<study>>])

\* createNewPatientWithPendingStudy(patientId, patientName, studyDate, imagePath)
CreateNewPatientWithPendingStudy(ps, id, patientName, date) ==
  AddStudyToPatient(ps, StudyOf(id, date, "Sin Analisis"), patientName)

\* the upload page's insertion of a study
UploadPageInsertion(ps, choice, newPatientId, newPatientName, date) ==
  LET finalPatientId == IF choice = "__new__" THEN newPatientId ELSE choice
      i == FindPatientById(ps, finalPatientId)
  IN  IF finalPatientId = "" THEN ps
      ELSE IF choice = "__new__"
      THEN CreateNewPatientWithPendingStudy(ps, finalPatientId, newPatientName, date)
      ELSE IF i # 0
      THEN [ps EXCEPT ![i].studies = <<StudyOf(finalPatientId, date, "Sin Analisis")>> \o @]
      ELSE ps

\* the number of studies of the store
RECURSIVE StudyCount(_)
StudyCount(ps) ==
  IF ps = <<>> THEN 0 ELSE Len(Head(ps).studies) + StudyCount(Tail(ps))


\* the units that are exercised on their own, untouched
UnitsInit ==
  /\ assembly = NoAssembly
  /\ client = ClientIdle
  /\ patients = mockPatients

\* no prediction read yet
NoReading == [done |-> FALSE, positive |-> FALSE, eligible |-> FALSE]
FramingIdle ==
  [prediction |-> [predicted_class |-> "", confidence |-> Undefined,
                   prob_neumonia |-> Undefined],
   thresholdEnv |-> UnsetEnv,
   server |-> NoReading, uploadPage |-> NoReading, classic |-> NoReading]

Init ==
  /\ env \in [CONFIDENCE_THRESHOLD : ServerThresholds,
              HUGGINGFACE_TOKEN : Tokens,
              MEDGEMMA_MODEL : ModelNames]
  /\ server = "constructed"
  /\ detector = NewDetector
  /\ generator = NewGenerator(env)
  /\ uploads = {}
  /\ mtime = 0
  /\ req = [c \in Clients |-> IdleReq]
  /\ gate = GateIdle
  /\ engine = EngineIdle
  /\ UnitsInit
  /\ framing = FramingIdle

---------------------------------------------------------------------------
(* RadoxServer.start *)

\* ReportGenerator.initialize up to its first await: the generator and
\* whether testConnection is now in flight
GeneratorInitialize(g) ==
  IF TokenMissing(g) \/ UsesMedGemma4bIT(g)
    THEN [generator |-> [g EXCEPT !.isInitialized = TRUE], awaiting |-> FALSE]
    ELSE [generator |-> g, awaiting |-> TRUE]

\* start() after pneumoniaDetector.initialize() has returned
ContinueStart ==
  LET gi == GeneratorInitialize(generator)
  IN  /\ generator' = gi.generator
      /\ server' = IF gi.awaiting THEN "testConnection" ELSE "listening"

\* PneumoniaDetector.initialize: fs.pathExists(pythonBridgePath) answers
DetectorInitialize(bridgeExists) ==
  /\ server = "constructed"
  /\ IF bridgeExists
       THEN /\ server' = "bridgeInit"
            /\ UNCHANGED <<detector, generator>>
       ELSE /\ detector' = DetectorAfterInit("no_script")
            /\ ContinueStart
  /\ UNCHANGED <<env, uploads, mtime, req, gate, engine, framing, units>>

\* the python process of callPythonBridge('init') ends
BridgeInitClose(outcome) ==
  /\ server = "bridgeInit"
  /\ detector' = DetectorAfterInit(outcome)
  /\ ContinueStart
  /\ UNCHANGED <<env, uploads, mtime, req, gate, engine, framing, units>>

\* testConnection's request ends (its timeout is 10 s): every outcome leaves
\* the generator initialized, then app.listen
TestConnectionDone(outcome) ==
  /\ server = "testConnection"
  /\ generator' = [generator EXCEPT !.isInitialized = TRUE]
  /\ server' = "listening"
  /\ UNCHANGED <<env, detector, uploads, mtime, req, gate, engine, framing, units>>

---------------------------------------------------------------------------
(* POST /api/analyze *)

Original(c, img, t) == [id |-> t, owner |-> c, kind |-> "original", ext |-> img.ext, mtime |-> t]
\* generateOutputPath: <name>_processed_<timestamp>.jpeg next to the input
Processed(c, t) == [id |-> t, owner |-> c, kind |-> "processed", ext |-> ".jpeg", mtime |-> t]

\* the upload arrives: multer filters it and stores it, the handler calls
\* processImage.  A filtered upload ends in the global error handler.
AnalyzeReceive(c, img) ==
  /\ server = "listening"
  /\ req[c].pc \in {"idle", "analyzed"}
  /\ req["c1"].analyses + req["c2"].analyses < MaxAnalyses
  /\ LET r == [IdleReq EXCEPT !.analyses = req[c].analyses + 1]
     IN  IF FileFilter(img)
           THEN /\ mtime' = mtime + 1
                /\ uploads' = uploads \cup {Original(c, img, mtime + 1)}
                /\ req' = [req EXCEPT ![c] =
                              [r EXCEPT !.pc = "processing", !.img = img,
                                        !.orig = mtime + 1]]
           ELSE /\ req' = [req EXCEPT ![c] =
                              [r EXCEPT !.pc = "analyzed", !.analyzeStatus = 500,
                                        !.img = img,
                                        !.error = "Solo se permiten archivos de imagen (JPG, PNG) o DICOM"]]
                /\ UNCHANGED <<uploads, mtime>>
  /\ UNCHANGED <<env, server, detector, generator, gate, engine, framing, units>>

\* processImage ends; on success predict runs and fs.remove of the upload
\* starts, on an error the catch block starts fs.remove
AnalyzeProcess(c) ==
  /\ req[c].pc = "processing"
  /\ LET r == req[c]
         err == ProcessImageError(r.img)
         p == Predict(detector)
     IN  IF err # ""
           THEN /\ req' = [req EXCEPT ![c].pc = "removing", ![c].error = err]
                /\ UNCHANGED <<uploads, mtime, detector>>
           ELSE /\ mtime' = mtime + 1
                /\ detector' = DetectorAfterPredict(detector, p)
                /\ uploads' = uploads \cup {Processed(c, mtime + 1)}
                /\ req' = [req EXCEPT ![c].pc = "removing",
                                      ![c].processed = mtime + 1,
                                      ![c].predictCalled = TRUE,
                                      ![c].error = p.error,
                                      ![c].prediction = p.prediction]
  /\ UNCHANGED <<env, server, generator, gate, engine, framing, units>>

\* fs.remove(req.file.path) is done and the response is sent
AnalyzeRespond(c) ==
  /\ req[c].pc = "removing"
  /\ LET r == req[c]
     IN  /\ uploads' = {f \in uploads : f.id # r.orig}
         /\ IF r.error # ""
              THEN req' = [req EXCEPT ![c].pc = "analyzed", ![c].analyzeStatus = 500]
              ELSE req' = [req EXCEPT ![c].pc = "analyzed", ![c].analyzeStatus = 200,
                             ![c].resultado =
                                [diagnostico |-> r.prediction.label,
                                 confianza |-> r.prediction.confidence,
                                 puedeGenerarInforme |->
                                    PuedeGenerarInforme(r.prediction, env.CONFIDENCE_THRESHOLD),
                                 imagePath |-> r.processed]]
  /\ UNCHANGED <<env, server, detector, generator, mtime, gate, engine, framing, units>>

---------------------------------------------------------------------------
(* POST /api/generate-report *)

\* the request is answered
Answer(r, status, informe) ==
  [r EXCEPT !.pc = "done", !.reportStatus = status, !.informe = informe,
            !.timer = 0, !.failedAt = 0, !.startedAt = 0, !.elapsed = 0]

\* generateWithRetry sends attempt number k
SendAttempt(r, k) ==
  [r EXCEPT !.pc = "calling", !.attempt = k, !.calls = r.calls + 1,
            !.startedAt = r.elapsed]

\* generateReport(analysisData) up to its first await or its return
GenerateReport(r, data) ==
  LET called == [r EXCEPT !.genCalled = TRUE, !.data = data]
  IN  IF UsesMedGemma4bIT(generator)
        THEN IF data.imagePath = 0
               THEN Answer([called EXCEPT !.path = "throw"], 500, NoInforme)
               ELSE [called EXCEPT !.pc = "subprocess", !.path = "medgemma4bit"]
      ELSE IF ~generator.isInitialized
        THEN Answer([called EXCEPT !.path = "throw"], 500, NoInforme)
      ELSE IF TokenMissing(generator)
        THEN Answer([called EXCEPT !.path = "demo"], 200, GenerateFallbackReport(data))
      ELSE SendAttempt([called EXCEPT !.path = "rest"], 1)

\* the handler up to its first await: the imagePath lookup, the two
\* precondition checks, the call of generateReport.  req[c] now holds this
\* request; the response of the client's analysis is no longer kept.
ReportReceive(c, diagnostico, confianza, sendPath) ==
  /\ server = "listening"
  /\ req[c].pc \in {"idle", "analyzed"}
  /\ LET r == req[c]
         bodyPath == IF sendPath THEN r.resultado.imagePath ELSE 0
         imagePath == IF bodyPath = 0 THEN LatestFile(uploads) ELSE bodyPath
         data == [diagnostico |-> diagnostico, confianza |-> confianza,
                  imagePath |-> imagePath]
         new == [IdleReq EXCEPT !.analyses = r.analyses]
     IN  IF ReportPrecondition(diagnostico, confianza, env.CONFIDENCE_THRESHOLD) # 0
           THEN req' = [req EXCEPT ![c] = Answer([new EXCEPT !.rejected = TRUE], 400, NoInforme)]
           ELSE req' = [req EXCEPT ![c] = GenerateReport(new, data)]
  /\ UNCHANGED <<env, server, detector, generator, uploads, mtime, gate, engine, framing, units>>

\* the python process of generateReportWithMedGemma4bIT closes
SubprocessClose(c, code) ==
  /\ req[c].pc = "subprocess"
  /\ req' = [req EXCEPT ![c] =
       IF code = 0 THEN Answer([req[c] EXCEPT !.last = "exit_0"], 200, MedGemmaOutput)
                   ELSE Answer([req[c] EXCEPT !.last = "exit_nonzero"], 500, NoInforme)]
  /\ UNCHANGED <<env, server, detector, generator, uploads, mtime, gate, engine, framing, units>>

\* generateWithRetry left its loop by throw lastError: generateReport's
\* catch block answers with the template report
Exhausted(r) ==
  Answer([r EXCEPT !.path = "exhausted"], 200, GenerateFallbackReport(r.data))

\* an axios.post of generateWithRetry ends
HttpRespond(c, outcome) ==
  /\ req[c].pc = "calling"
  /\ LET r == [req[c] EXCEPT !.elapsed = @ + Latency(outcome), !.last = outcome]
         ms == SleepMs(outcome, r.attempt)
         failed == [r EXCEPT !.failedAt = r.elapsed]
     IN  req' = [req EXCEPT ![c] =
           IF HasGeneratedText(outcome)
             THEN Answer(r, 200, ProcessReport(TrimmedText(outcome), r.data, generator))
           ELSE IF ms > 0
             THEN [failed EXCEPT !.pc = "sleeping", !.timer = ms]
           ELSE IF MoreAttempts(r.attempt + 1)
             THEN SendAttempt([failed EXCEPT !.timer = 0], r.attempt + 1)
           ELSE Exhausted([failed EXCEPT !.timer = 0])]
  /\ UNCHANGED <<env, server, detector, generator, uploads, mtime, gate, engine, framing, units>>

\* the setTimeout of sleep(ms) fires: the loop goes on or ends
TimerFire(c) ==
  /\ req[c].pc = "sleeping"
  /\ LET r == [req[c] EXCEPT !.elapsed = @ + req[c].timer]
     IN  req' = [req EXCEPT ![c] =
           IF MoreAttempts(r.attempt + 1)
             THEN SendAttempt(r, r.attempt + 1)
             ELSE Exhausted(r)]
  /\ UNCHANGED <<env, server, detector, generator, uploads, mtime, gate, engine, framing, units>>

---------------------------------------------------------------------------
(* Specification of the server *)

Next ==
  \/ \E b \in BOOLEAN : DetectorInitialize(b)
  \/ \E o \in BridgeOutcomes : BridgeInitClose(o)
  \/ \E o \in ConnectionOutcomes : TestConnectionDone(o)
  \/ \E c \in Clients, img \in Images : AnalyzeReceive(c, img)
  \/ \E c \in Clients : AnalyzeProcess(c)
  \/ \E c \in Clients : AnalyzeRespond(c)
  \/ \E c \in Reporters, d \in Diagnosticos, k \in Confianzas, p \in BOOLEAN :
        ReportReceive(c, d, k, p)
  \/ \E c \in Clients, code \in {0, 1} : SubprocessClose(c, code)
  \/ \E c \in Clients, o \in HttpOutcomes : HttpRespond(c, o)
  \/ \E c \in Clients : TimerFire(c)

Spec == Init /\ [][Next]_vars

\* What the runtime guarantees to happen: file-system calls of the server
\* itself end, a setTimeout fires, and an axios request with a timeout option
\* ends (testConnection: 10 s, generateWithRetry: 30 s).  Nothing bounds the
\* two python processes (spawn without a timeout) nor makes a client send.
Fairness ==
  /\ WF_vars(\E b \in BOOLEAN : DetectorInitialize(b))
  /\ WF_vars(\E o \in ConnectionOutcomes : TestConnectionDone(o))
  /\ \A c \in Clients :
        /\ WF_vars(AnalyzeProcess(c))
        /\ WF_vars(AnalyzeRespond(c))
        /\ WF_vars(\E o \in HttpOutcomes : HttpRespond(c, o))
        /\ WF_vars(TimerFire(c))

FairSpec == Spec /\ Fairness

---------------------------------------------------------------------------
(* The decision gates on their own: one (label, confidence) and one value of
   CONFIDENCE_THRESHOLD, given to the gate of /api/analyze and to the
   precondition of /api/generate-report *)

GateLabels == {"Neumonia", "Normal", "neumonia", ""}
GateConfidences ==
  {Num(0), Num(50), Num(79), Num(80), Num(81), Num(85), Num(100), Undefined}
GateThresholds ==
  { UnsetEnv, <<"0", ".", "8">>, <<"0", ".", "8", "5">>, <<"0", ".", "5">>,
    <<"1">>, <<".", "8">>, <<" ", "0", ".", "8", "0", " ">>, <<"a", "b", "c">>, <<>> }

GateInit ==
  /\ gate \in { [GateIdle EXCEPT !.label = l, !.confidence = k, !.thresholdEnv = t] :
                  l \in GateLabels, k \in GateConfidences, t \in GateThresholds }
  /\ env = [CONFIDENCE_THRESHOLD |-> UnsetEnv, HUGGINGFACE_TOKEN |-> "",
            MEDGEMMA_MODEL |-> ""]
  /\ server = "constructed"
  /\ detector = NewDetector
  /\ generator = NewGenerator(env)
  /\ uploads = {}
  /\ mtime = 0
  /\ req = [c \in Clients |-> IdleReq]
  /\ engine = EngineIdle
  /\ UnitsInit
  /\ framing = FramingIdle

\* /api/analyze computes resultado.puedeGenerarInforme for the prediction
AnalyzeGate ==
  /\ ~gate.analyzed
  /\ gate' = [gate EXCEPT !.analyzed = TRUE,
                !.puedeGenerarInforme =
                   PuedeGenerarInforme([label |-> gate.label, confidence |-> gate.confidence],
                                       gate.thresholdEnv)]
  /\ UNCHANGED serverVars

\* /api/generate-report checks the same pair sent back as diagnostico and
\* confianza
ReportGate ==
  /\ ~gate.reported
  /\ gate' = [gate EXCEPT !.reported = TRUE,
                !.status = ReportPrecondition(gate.label, gate.confidence, gate.thresholdEnv)]
  /\ UNCHANGED serverVars

GateNext == AnalyzeGate \/ ReportGate

GateSpec == GateInit /\ [][GateNext]_vars

---------------------------------------------------------------------------
(* PneumoniaDetector.initialize called by several callers, any number of
   times: the method on its own, between its awaits *)

\* initialize() is called: it runs up to await fs.pathExists(...)
InitializeCall(k) ==
  /\ engine.callers[k].pc = "idle"
  /\ engine.callers[k].calls < MaxInitCalls
  /\ engine' = [engine EXCEPT !.callers[k].pc = "pathExists",
                              !.callers[k].calls = @ + 1]
  /\ UNCHANGED <<env, server, detector, generator, uploads, mtime, req, gate, framing, units>>

\* fs.pathExists answers: without the script the catch block sets the mock
\* flags; with it callPythonBridge('init') spawns the python process.
\* Nothing on this path reads isInitialized.
InitializePathExists(k, bridgeExists) ==
  /\ engine.callers[k].pc = "pathExists"
  /\ IF bridgeExists
       THEN /\ engine' = [engine EXCEPT !.callers[k].pc = "bridge", !.inits = @ + 1]
            /\ UNCHANGED detector
       ELSE /\ engine' = [engine EXCEPT !.callers[k].pc = "idle"]
            /\ detector' = DetectorAfterInit("no_script")
  /\ UNCHANGED <<env, server, generator, uploads, mtime, req, gate, framing, units>>

\* the python process of this call's callPythonBridge('init') ends
InitializeBridgeClose(k, outcome) ==
  /\ engine.callers[k].pc = "bridge"
  /\ engine' = [engine EXCEPT !.callers[k].pc = "idle"]
  /\ detector' = DetectorAfterInit(outcome)
  /\ UNCHANGED <<env, server, generator, uploads, mtime, req, gate, framing, units>>

InitializeNext ==
  \/ \E k \in InitCallers : InitializeCall(k)
  \/ \E k \in InitCallers, b \in BOOLEAN : InitializePathExists(k, b)
  \/ \E k \in InitCallers, o \in BridgeOutcomes : InitializeBridgeClose(k, o)

\* a constructed detector, the server not started
InitializeInit ==
  /\ env = [CONFIDENCE_THRESHOLD |-> UnsetEnv, HUGGINGFACE_TOKEN |-> "",
            MEDGEMMA_MODEL |-> ""]
  /\ server = "constructed"
  /\ detector = NewDetector
  /\ generator = NewGenerator(env)
  /\ uploads = {}
  /\ mtime = 0
  /\ req = [c \in Clients |-> IdleReq]
  /\ gate = GateIdle
  /\ engine = EngineIdle
  /\ UnitsInit
  /\ framing = FramingIdle

InitializeSpec == InitializeInit /\ [][InitializeNext]_vars

---------------------------------------------------------------------------
(* One prediction read by the server and by the two frontends *)

\* x ?? 0 and the x !== undefined ? x : 0 of the frontends
OrZero(x) == IF x.t = "undefined" THEN Num(0) ELSE x

\* server.js /api/analyze: tieneNeumonia and puedeGenerarInforme
ServerReading(p, thresholdEnv) ==
  [done |-> TRUE,
   positive |-> p.predicted_class = PositiveLabel,
   eligible |-> PuedeGenerarInforme([label |-> p.predicted_class,
                                     confidence |-> p.confidence], thresholdEnv)]

\* (pred.predicted_class || "").toLowerCase().includes("neumonia")
UploadPageTieneNeumonia(p) ==
  Contains(Chars(ToLowerCase(p.predicted_class)), Chars("neumonia"))

\* upload page of the Next.js frontend: tieneNeumonia and puedeGenerarInforme,
\* the latter with the literal 0.5 on prob_neumonia
UploadPageReading(p) ==
  [done |-> TRUE,
   positive |-> UploadPageTieneNeumonia(p),
   eligible |-> UploadPageTieneNeumonia(p) /\ JsGeq(OrZero(p.prob_neumonia), Num(50))]

\* updateDiagnosis of the classic frontend: prob_neumonia >= 0.5 alone; the
\* report is requested whenever the user asked for it
ClassicReading(p) ==
  [done |-> TRUE,
   positive |-> JsGeq(OrZero(p.prob_neumonia), Num(50)),
   eligible |-> TRUE]

FramingClasses == {"Neumonia", "Normal", "NEUMONIA"}
FramingConfidences == {Num(60), Num(85)}
FramingProbabilities == {Num(40), Num(60), Num(85), Undefined}
FramingThresholds == {<<"0", ".", "8">>, <<"0", ".", "5">>}

FramingInit ==
  /\ framing \in
       { [FramingIdle EXCEPT !.prediction = [predicted_class |-> cl, confidence |-> k,
                                            prob_neumonia |-> pn],
                            !.thresholdEnv = t] :
           cl \in FramingClasses, k \in FramingConfidences,
           pn \in FramingProbabilities, t \in FramingThresholds }
  /\ env = [CONFIDENCE_THRESHOLD |-> UnsetEnv, HUGGINGFACE_TOKEN |-> "",
            MEDGEMMA_MODEL |-> ""]
  /\ server = "constructed"
  /\ detector = NewDetector
  /\ generator = NewGenerator(env)
  /\ uploads = {}
  /\ mtime = 0
  /\ req = [c \in Clients |-> IdleReq]
  /\ gate = GateIdle
  /\ engine = EngineIdle
  /\ UnitsInit

ServerReads ==
  /\ ~framing.server.done
  /\ framing' = [framing EXCEPT !.server =
                     ServerReading(framing.prediction, framing.thresholdEnv)]
  /\ UNCHANGED <<env, server, detector, generator, uploads, mtime, req, gate, engine, units>>

UploadPageReads ==
  /\ ~framing.uploadPage.done
  /\ framing' = [framing EXCEPT !.uploadPage = UploadPageReading(framing.prediction)]
  /\ UNCHANGED <<env, server, detector, generator, uploads, mtime, req, gate, engine, units>>

ClassicReads ==
  /\ ~framing.classic.done
  /\ framing' = [framing EXCEPT !.classic = ClassicReading(framing.prediction)]
  /\ UNCHANGED <<env, server, detector, generator, uploads, mtime, req, gate, engine, units>>

FramingNext == ServerReads \/ UploadPageReads \/ ClassicReads

FramingSpec == FramingInit /\ [][FramingNext]_vars

---------------------------------------------------------------------------
(* processReport on one text, generateFallbackReport called twice with the
   same analysisData while time passes *)

Pieces == {"H", "R", "I", "w", " "}
\* the longest text given to processReport, in pieces
MaxTextLen == 3
\* the latest time of a call, in clock ticks
MaxClock == 2

RawReports == UNION { [1..n -> Pieces] : n \in 0..MaxTextLen }

AssemblyInit ==
  /\ assembly \in { [NoAssembly EXCEPT !.raw = t] : t \in RawReports }
  /\ env = [CONFIDENCE_THRESHOLD |-> UnsetEnv, HUGGINGFACE_TOKEN |-> "",
            MEDGEMMA_MODEL |-> ""]
  /\ server = "constructed"
  /\ detector = NewDetector
  /\ generator = NewGenerator(env)
  /\ uploads = {}
  /\ mtime = 0
  /\ req = [c \in Clients |-> IdleReq]
  /\ gate = GateIdle
  /\ engine = EngineIdle
  /\ framing = FramingIdle
  /\ client = ClientIdle
  /\ patients = mockPatients

\* processReport(rawReport, analysisData)
ProcessReportCall ==
  /\ assembly.processed.kind = "none"
  /\ assembly' = [assembly EXCEPT !.processed =
                      ProcessReport(assembly.raw, assembly.data, generator)]
  /\ UNCHANGED <<coreVars, client, patients>>

\* generateFallbackReport(analysisData)
FallbackCall ==
  /\ Len(assembly.fallbacks) < 2
  /\ assembly' = [assembly EXCEPT !.fallbacks =
                      Append(@, GenerateFallbackReportAt(assembly.data, assembly.now))]
  /\ UNCHANGED <<coreVars, client, patients>>

\* time passes
ClockTick ==
  /\ assembly.now < MaxClock
  /\ assembly' = [assembly EXCEPT !.now = @ + 1]
  /\ UNCHANGED <<coreVars, client, patients>>

AssemblyNext == ProcessReportCall \/ FallbackCall \/ ClockTick

AssemblySpec == AssemblyInit /\ [][AssemblyNext]_vars

---------------------------------------------------------------------------
(* The web client, public/js/app.js *)

\* the most analysis requests followed at once
MaxInFlight == 2

\* what the page shows before any script ran is the markup's choice
ClientInit ==
  /\ client \in { [ClientIdle EXCEPT !.analyzeBtnDisabled = a, !.reportSectionShown = s] :
                     a \in BOOLEAN, s \in BOOLEAN }
  /\ env = [CONFIDENCE_THRESHOLD |-> UnsetEnv, HUGGINGFACE_TOKEN |-> "",
            MEDGEMMA_MODEL |-> ""]
  /\ server = "constructed"
  /\ detector = NewDetector
  /\ generator = NewGenerator(env)
  /\ uploads = {}
  /\ mtime = 0
  /\ req = [c \in Clients |-> IdleReq]
  /\ gate = GateIdle
  /\ engine = EngineIdle
  /\ framing = FramingIdle
  /\ assembly = NoAssembly
  /\ patients = mockPatients

\* click on the upload area: the file picker opens unless analysing
UploadAreaClick ==
  /\ client' = IF ~client.isAnalyzing THEN [client EXCEPT !.picker = TRUE] ELSE client
  /\ UNCHANGED <<coreVars, assembly, patients>>

\* change of the file input: the picker gives its file list
FileInputChange(f) ==
  /\ client.picker
  /\ client' = HandleFileSelect([client EXCEPT !.picker = FALSE], f)
  /\ UNCHANGED <<coreVars, assembly, patients>>

\* drop of a file on the upload area
UploadAreaDrop(f) ==
  /\ client' = IF ~client.isAnalyzing /\ f # NoFile
                 THEN HandleFileSelect(client, f) ELSE client
  /\ UNCHANGED <<coreVars, assembly, patients>>

\* click on the analyze button: analyzeImage up to its fetch
AnalyzeBtnClick ==
  /\ ~client.analyzeBtnDisabled
  /\ Len(client.analyzeRequests) < MaxInFlight
  /\ client' = IF AnalyzeImageGuard(client)
                 THEN [client EXCEPT !.isAnalyzing = TRUE,
                                     !.analyzeBtnDisabled = TRUE,
                                     !.analyzeRequests = Append(@, client.selectedFile)]
                 ELSE client
  /\ UNCHANGED <<coreVars, assembly, patients>>

\* the outcomes of the fetch of /api/analyze and of reading its body
AnalyzeOutcomes == {"success", "not_ok", "unsuccessful", "rejected"}

\* analyzeImage from the answer of its fetch to the end of `finally`
AnalyzeSettle(outcome, puede) ==
  /\ client.analyzeRequests # <<>>
  /\ LET sent == Head(client.analyzeRequests)
         shown == IF outcome = "success"
                  THEN [client EXCEPT
                          !.currentAnalysis = [exists |-> TRUE, file |-> sent,
                                               puedeGenerarInforme |-> puede],
                          !.reportSectionShown = puede]
                  ELSE client
     IN  client' = [shown EXCEPT !.isAnalyzing = FALSE,
                                 !.analyzeBtnDisabled = FALSE,
                                 !.analyzeRequests = Tail(@)]
  /\ UNCHANGED <<coreVars, assembly, patients>>

\* click on the report button: generateReport up to its fetch
GenerateReportBtnClick ==
  /\ client.reportSectionShown
  /\ ~client.generateReportBtnDisabled
  /\ client' = IF GenerateReportGuard(client)
                 THEN [client EXCEPT !.generateReportBtnDisabled = TRUE,
                                     !.reportRequests = Append(@, client.currentAnalysis)]
                 ELSE client
  /\ UNCHANGED <<coreVars, assembly, patients>>

\* generateReport from the answer of its fetch to the end of `finally`
ReportSettle ==
  /\ client.reportRequests # <<>>
  /\ client' = [client EXCEPT !.generateReportBtnDisabled = FALSE,
                              !.reportRequests = Tail(@)]
  /\ UNCHANGED <<coreVars, assembly, patients>>

ClientNext ==
  \/ UploadAreaClick
  \/ \E f \in ClientFiles \cup {NoFile} : FileInputChange(f)
  \/ \E f \in ClientFiles \cup {NoFile} : UploadAreaDrop(f)
  \/ AnalyzeBtnClick
  \/ \E o \in AnalyzeOutcomes, p \in BOOLEAN : AnalyzeSettle(o, p)
  \/ GenerateReportBtnClick
  \/ ReportSettle

ClientSpec == ClientInit /\ [][ClientNext]_vars

---------------------------------------------------------------------------
(* The demo patient store, lib/mock-data.ts and its users *)

\* the most studies added to the store
MaxStudies == 2

PatientIds == {"P1234", "P9012", "P7777"}
StudyDates == {20241201, 20250112, 20250120}
Diagnoses == {"Pneumonia Detected", "Normal"}
PatientNames == {"", "Ana Ruiz"}

PatientsInit ==
  /\ patients = mockPatients
  /\ env = [CONFIDENCE_THRESHOLD |-> UnsetEnv, HUGGINGFACE_TOKEN |-> "",
            MEDGEMMA_MODEL |-> ""]
  /\ server = "constructed"
  /\ detector = NewDetector
  /\ generator = NewGenerator(env)
  /\ uploads = {}
  /\ mtime = 0
  /\ req = [c \in Clients |-> IdleReq]
  /\ gate = GateIdle
  /\ engine = EngineIdle
  /\ framing = FramingIdle
  /\ assembly = NoAssembly
  /\ client = ClientIdle

\* POST /api/analyze of the demo: the analysed study goes into the store
MockAnalyzeRoute(id, date, diagnosis) ==
  /\ StudyCount(patients) < StudyCount(mockPatients) + MaxStudies
  /\ patients' = AddStudyToPatient(patients, StudyOf(id, date, diagnosis), "")
  /\ UNCHANGED <<coreVars, assembly, client>>

\* handleUpload of the upload page, for a patient of the list or a new one
MockHandleUpload(choice, newPatientId, newPatientName, date) ==
  /\ StudyCount(patients) < StudyCount(mockPatients) + MaxStudies
  /\ choice \in {"__new__"} \cup {patients[i].patientId : i \in 1..Len(patients)}
  /\ patients' = UploadPageInsertion(patients, choice, newPatientId, newPatientName, date)
  /\ UNCHANGED <<coreVars, assembly, client>>

PatientsNext ==
  \/ \E id \in PatientIds, d \in StudyDates, g \in Diagnoses : MockAnalyzeRoute(id, d, g)
  \/ \E ch \in PatientIds \cup {"__new__"}, id \in PatientIds \cup {""},
        n \in PatientNames, d \in StudyDates : MockHandleUpload(ch, id, n, d)

PatientsSpec == PatientsInit /\ [][PatientsNext]_vars

---------------------------------------------------------------------------
(* Claims *)

\* C1: the gate of /api/analyze sets puedeGenerarInforme to true exactly
\* when the label is the positive label and the confidence is at least the
\* configured threshold; in every other case it is false.
C1_GateIffPositiveAboveThreshold ==
  gate.analyzed =>
    LET thr == ParseFloat(gate.thresholdEnv)
    IN  gate.puedeGenerarInforme <=>
          /\ gate.label = "Neumonia"
          /\ gate.confidence.t = "number"
          /\ thr.t = "number"
          /\ gate.confidence.v >= thr.v

\* the gate has answered true for a confidence equal to the threshold
C1_Witness ==
  /\ gate.analyzed
  /\ gate.puedeGenerarInforme
  /\ gate.label = "Neumonia"
  /\ gate.confidence = Num(80)
  /\ gate.thresholdEnv = <<"0", ".", "8">>

\* C2 (as claimed): for an eligible prediction, when the remote generation
\* never produced a text, generateReport returned a report marked as
\* fallback and the request was not answered 500.
C2_FallbackTotality ==
  \A c \in Clients :
    LET r == req[c]
        thr == ParseFloat(env.CONFIDENCE_THRESHOLD)
    IN  ( /\ r.pc = "done"
          /\ r.genCalled
          /\ r.data.diagnostico = "Neumonia"
          /\ r.data.confianza.t = "number"
          /\ thr.t = "number"
          /\ r.data.confianza.v >= thr.v
          /\ r.last \notin {"text", "exit_0"} )
        => ( /\ r.reportStatus = 200
             /\ r.informe.kind = "object"
             /\ r.informe.tipoInforme = "Demostracion" )

\* C3 (as claimed): with a configured threshold, generateReport is called
\* only for a diagnosis that is the positive label with a numeric confidence
\* of at least the threshold.
C3_NoGenerationWhenIneligible ==
  \A c \in Clients :
    LET r == req[c]
        thr == ParseFloat(env.CONFIDENCE_THRESHOLD)
    IN  (r.genCalled /\ thr.t = "number")
        => ( /\ r.data.diagnostico = "Neumonia"
             /\ r.data.confianza.t = "number"
             /\ r.data.confianza.v >= thr.v )

\* C4: generateWithRetry calls the remote service at most 3 times for one
\* report, makes no call after the one that returned a text, treats an empty
\* answer as a failure, and after the 3rd failure generateReport returns the
\* template report.
C4_BoundedRetry ==
  \A c \in Clients :
    LET r == req[c]
    IN  /\ r.calls <= 3
        /\ r.calls = r.attempt
        /\ r.pc \in {"calling", "sleeping"} => r.last # "text"
        /\ (r.pc = "done" /\ r.last = "text")
             => ( /\ r.calls \in 1..3
                  /\ r.reportStatus = 200
                  /\ r.informe.informeCompleto = Trim(GeneratedText)
                  /\ r.informe.tipoInforme = "" )
        /\ (r.pc = "done" /\ r.calls > 0 /\ r.last # "text")
             => ( /\ r.calls = 3
                  /\ r.last \in {"empty", "503", "error", "timeout"}
                  /\ r.reportStatus = 200
                  /\ r.informe.tipoInforme = "Demostracion" )

\* three attempts were made, the last one answered empty, and the template
\* report was returned
C4_Witness ==
  \E c \in Clients :
    /\ req[c].pc = "done"
    /\ req[c].calls = 3
    /\ req[c].last = "empty"
    /\ req[c].informe.tipoInforme = "Demostracion"

\* C5: attempt k+1 of generateWithRetry starts retryDelay*k after the failure
\* of attempt k when that failure was a 503, and retryDelay after any other
\* failure; while that wait runs no further attempt has been sent.
C5_RetryDelay ==
  \A c \in Clients :
    LET r == req[c]
    IN  /\ (r.pc = "calling" /\ r.attempt > 1)
             => r.startedAt - r.failedAt =
                  IF r.last = "503" THEN 2000 * (r.attempt - 1) ELSE 2000
        /\ r.pc = "sleeping"
             => ( /\ r.calls = r.attempt
                  /\ r.elapsed = r.failedAt
                  /\ r.timer = IF r.last = "503" THEN 2000 * r.attempt ELSE 2000 )

\* the third attempt is in flight 4 s after the second one failed with a 503
C5_Witness ==
  \E c \in Clients :
    /\ req[c].pc = "calling"
    /\ req[c].attempt = 3
    /\ req[c].last = "503"
    /\ req[c].startedAt - req[c].failedAt = 4000

\* C6 (as claimed): every value generateReport returned contains a
\* disclaimer, the same text in all of them.
C6_DisclaimerInvariant ==
  \E text \in {DisclaimerIA, DisclaimerDemo} :
    \A c \in Clients :
      (req[c].pc = "done" /\ req[c].reportStatus = 200)
        => req[c].informe.disclaimer = text

\* C7 (as claimed): every value generateReport returned carries a tag that
\* reads fallback exactly when generateFallbackReport built it and remote
\* exactly when its text is the text the remote service returned.
C7_Provenance ==
  \A c \in Clients :
    LET r == req[c]
        tag == IF r.informe.kind # "object" THEN "none"
               ELSE IF r.informe.tipoInforme = "Demostracion" THEN "fallback"
               ELSE "remote"
    IN  (r.pc = "done" /\ r.reportStatus = 200)
        => ( /\ tag # "none"
             /\ tag = "fallback" <=> r.path \in {"demo", "exhausted"}
             /\ tag = "remote" <=> r.last = "text" )

\* C8 (as claimed): after a failed initialization the engine is recorded as
\* unavailable and a predict call resolves to a labelled degraded-mode
\* prediction: the analysis that reached predict has a prediction and no error.
C8_DegradedPrediction ==
  \A c \in Clients :
    LET r == req[c]
    IN  ( /\ detector.isInitialized
          /\ detector.useMockModel = "true"
          /\ r.pc \in {"removing", "analyzed"}
          /\ r.processed # 0 )
        => (r.error = "" /\ r.prediction.status # "")

\* C9 (as claimed): the image path handed to generateReport for a client's
\* request is a file written for that client's own request.
C9_RequestIsolation ==
  \A c \in Clients :
    (req[c].genCalled /\ req[c].data.imagePath # 0)
      => \E f \in uploads : f.id = req[c].data.imagePath /\ f.owner = c

\* C10 (as claimed): every request that is being handled is eventually
\* answered.
C10_NoStall ==
  \A c \in Clients :
    (req[c].pc \in {"processing", "removing", "subprocess", "calling", "sleeping"})
      ~> (req[c].pc \in {"analyzed", "done"})

\* C11 (as claimed): whatever calls of detector.initialize() are made, the
\* engine's 'init' action is run at most once.
C11_InitAtMostOnce == engine.inits <= 1

\* C12: an upload whose extension is not .jpg, .jpeg, .png, .dcm or .dicom is
\* answered with a format error, and predict is not called for it.
C12_UnsupportedFormatBeforeInference ==
  \A c \in Clients :
    LET r == req[c]
    IN  (r.img # NoImage /\ r.img.ext \notin SupportedFormats)
        => ( /\ ~r.predictCalled
             /\ r.prediction = NoPrediction
             /\ r.processed = 0
             /\ r.pc = "analyzed"
                  => ( /\ r.analyzeStatus = 500
                       /\ r.error \in
                            { "Formato de archivo no soportado",
                              "Solo se permiten archivos de imagen (JPG, PNG) o DICOM" } ) )

\* an upload named .jpgx with an image MIME type passed the upload filter,
\* was refused by processImage and answered
C12_Witness ==
  \E c \in Clients :
    /\ req[c].pc = "analyzed"
    /\ req[c].img.ext = ".jpgx"
    /\ req[c].orig # 0
    /\ req[c].error = "Formato de archivo no soportado"

\* C13 (as claimed): with HUGGINGFACE_TOKEN unset or a placeholder, the
\* generator is initialized once the server listens, and every call of
\* generateReport returns the template report without starting a process or
\* sending a request, whatever the model name.
C13_NoCredentialMeansFallback ==
  TokenMissing(generator) =>
    /\ server = "listening" => generator.isInitialized
    /\ \A c \in Clients :
         req[c].genCalled =>
           /\ req[c].pc = "done"
           /\ req[c].path = "demo"
           /\ req[c].calls = 0
           /\ req[c].reportStatus = 200
           /\ req[c].informe.tipoInforme = "Demostracion"

\* position of a request in the pipeline: received, normalizing, inferring
\* and cleaning up, analysed, generating, answered
Stage(pc) ==
  CASE pc = "idle" -> 0
    [] pc = "processing" -> 1
    [] pc = "removing" -> 2
    [] pc = "analyzed" -> 3
    [] pc \in {"subprocess", "calling", "sleeping"} -> 4
    [] OTHER -> 5

\* C14 (as claimed): a client's request only moves forward through the
\* stages, and generateReport is entered only from an analysis of the same
\* client that was answered with puedeGenerarInforme = true.
C14_LinearPipeline ==
  [][ \A c \in Clients :
        LET r == req[c]
            n == req'[c]
        IN  /\ Stage(n.pc) >= Stage(r.pc) \/ n.analyses > r.analyses
            /\ (~r.genCalled /\ n.genCalled)
                 => ( /\ r.pc = "analyzed"
                      /\ r.analyzeStatus = 200
                      /\ r.resultado.puedeGenerarInforme ) ]_vars

\* C15: once the server listens the detector's fields never change, and a
\* predict call that throws puts its error on the request that made it and
\* leaves every other request as it was.
C15_InferenceFailureIsLocal ==
  [][ /\ server = "listening" => detector' = detector
      /\ \A c \in Clients :
           ( /\ ~req[c].predictCalled
             /\ req'[c].predictCalled
             /\ Predict(detector).result = "throw" )
           => ( /\ req'[c].error = Predict(detector).error
                /\ req'[c].prediction = NoPrediction
                /\ \A d \in Clients \ {c} : req'[d] = req[d] ) ]_vars

\* predict threw for both clients, one after the other, and the detector is
\* as initialize left it
C15_Witness ==
  /\ detector = DetectorAfterInit("no_script")
  /\ \A c \in Clients :
       /\ req[c].pc = "analyzed"
       /\ req[c].predictCalled
       /\ req[c].analyzeStatus = 500
       /\ req[c].error = "TypeError: this.mockPredict is not a function"

\* C16 (as claimed): for one label, one confidence and one value of
\* CONFIDENCE_THRESHOLD, /api/generate-report lets the request through
\* exactly when /api/analyze answers puedeGenerarInforme = true.
C16_GatesAgree ==
  (gate.analyzed /\ gate.reported)
    => (gate.status = 0 <=> gate.puedeGenerarInforme)

\* C17 (as claimed): for one prediction the server, the upload page and the
\* classic frontend give the same positive/negative diagnosis, and the server
\* and the upload page the same report eligibility.
C17_OneFraming ==
  (framing.server.done /\ framing.uploadPage.done /\ framing.classic.done)
    => /\ framing.server.positive = framing.uploadPage.positive
       /\ framing.server.positive = framing.classic.positive
       /\ framing.server.eligible = framing.uploadPage.eligible

\* C18 (as claimed): an upload narrower or lower than the minimum dimension
\* is answered with an error, no processed image is written for it and
\* predict is not called.
C18_TooSmallRejected ==
  \A c \in Clients :
    LET r == req[c]
    IN  ( /\ r.img # NoImage
          /\ r.img.width < minDimension \/ r.img.height < minDimension )
        => ( /\ ~r.predictCalled
             /\ r.processed = 0
             /\ r.pc = "analyzed" => (r.analyzeStatus = 500 /\ r.error # "") )

\* C19 (as claimed): for a .dcm or .dicom upload processImage writes a
\* processed image, also when sharp cannot decode the file.
C19_DicomBestEffort ==
  \A c \in Clients :
    LET r == req[c]
    IN  ( /\ r.img.ext \in {".dcm", ".dicom"}
          /\ r.pc \in {"removing", "analyzed"} )
        => ( /\ r.processed # 0
             /\ r.error \notin { "Error al procesar imagen DICOM",
                                 "Error al procesar imagen estandar" } )

\* C20 (as claimed): once a client's /api/analyze is answered, the upload
\* directory holds no file written for that client.
C20_ImagesTransient ==
  \A c \in Clients :
    req[c].pc = "analyzed" => ~ \E f \in uploads : f.owner = c

\* C21: processReport keeps the text it is given as informeCompleto; hallazgos
\* is the placeholder when the text has no hallazgos and otherwise a piece of
\* the text that starts at its first hallazgos; recomendaciones is the
\* placeholder when the text has no recomendaciones and otherwise the text
\* from its first recomendaciones to the end, trimmed.
C21_AssemblyTotal ==
  assembly.processed.kind = "object" =>
    LET raw == assembly.raw
        h == assembly.processed.hallazgos
        r == assembly.processed.recomendaciones
        ih == FirstIndex(raw, {"H"})
        ir == FirstIndex(raw, {"R"})
    IN  /\ assembly.processed.informeCompleto = raw
        /\ ih = 0 => h = <<"Ver informe completo">>
        /\ ih > 0 => /\ Len(h) \in 1..(Len(raw) - ih + 1)
                     /\ \A k \in 1..Len(h) : h[k] = raw[ih + k - 1]
        /\ ir = 0 => r = <<"Consultar con especialista en neumologia">>
        /\ ir > 0 => r = Trim(SubSeq(raw, ir, Len(raw)))

\* a text with hallazgos followed by recomendaciones was assembled: the
\* findings stop before the recommendations
C21_Witness ==
  /\ assembly.raw = <<"H", "w", "R">>
  /\ assembly.processed.kind = "object"
  /\ assembly.processed.hallazgos = <<"H", "w">>
  /\ assembly.processed.recomendaciones = <<"R">>

\* C22 (as claimed): every report generateReport returned has the sections
\* hallazgos, impresion and recomendaciones, none of them empty, and the
\* metadata: model identifier, source confidence and source label.
C22_SectionsAndMetadata ==
  \A c \in Clients :
    LET i == req[c].informe
    IN  (req[c].pc = "done" /\ req[c].reportStatus = 200)
        => ( /\ {"hallazgos", "impresion", "recomendaciones", "metadatos"} \subseteq i.keys
             /\ i.hallazgos # <<>>
             /\ i.recomendaciones # <<>>
             /\ i.modeloIA # ""
             /\ i.diagnosticoIA = req[c].data.diagnostico
             /\ i.confianzaDeteccion = req[c].data.confianza )

\* C23 (as claimed): two calls of generateFallbackReport with the same
\* analysisData return equal reports.
C23_FallbackDeterministic ==
  Len(assembly.fallbacks) = 2 => assembly.fallbacks[1] = assembly.fallbacks[2]

\* C24 (as claimed): a generateReport call that went through generateWithRetry
\* returns at most maxRetries * 30 s after it started.
C24_LatencyBound ==
  [][ \A c \in Clients :
        LET r == req[c]
            n == req'[c]
        IN  /\ (r.pc = "calling" /\ n.pc = "done")
                 => r.elapsed + Latency(n.last) <= maxRetries * requestTimeout
            /\ (r.pc = "sleeping" /\ n.pc = "done")
                 => r.elapsed + r.timer <= maxRetries * requestTimeout ]_vars

\* C26 (as claimed): generateWithRetry never waits after its last attempt.
C26_NoWaitAfterLastAttempt ==
  \A c \in Clients : req[c].pc = "sleeping" => req[c].attempt < maxRetries

\* C27: a request is handled only once the server listens, the server
\* listens only with the detector and the generator both initialized, and no
\* request ends with the error of an uninitialized detector or generator.
C27_StartupOrdering ==
  /\ \A c \in Clients : req[c].pc # "idle" => server = "listening"
  /\ server = "listening" => (detector.isInitialized /\ generator.isInitialized)
  /\ \A c \in Clients :
       /\ req[c].error # "El detector no esta inicializado"
       /\ req[c].predictCalled => detector.isInitialized
       /\ req[c].genCalled => generator.isInitialized

\* the bridge script was missing at start-up, and the server has since
\* handled an analysis up to predict and a report request up to generateReport
C27_Witness ==
  /\ detector = DetectorAfterInit("no_script")
  /\ \E c \in Clients : req[c].pc = "analyzed" /\ req[c].predictCalled
  /\ \E c \in Clients : req[c].pc = "done" /\ req[c].genCalled

\* C25 (as claimed): with the engine initialized successfully, predict
\* returns the label and the confidence the CNN gives for the uploaded image.
C25_PredictionIsTheEngines ==
  \A c \in Clients :
    LET r == req[c]
    IN  (r.predictCalled /\ detector.useMockModel = "false")
        => ( /\ r.prediction.label = r.img.cnn.label
             /\ r.prediction.confidence = r.img.cnn.confidence )

\* C28: the web client never has more than one analysis request in flight,
\* whatever is clicked, dropped or picked, and when an analysis ends, well or
\* badly, isAnalyzing is false and the analyze button is enabled.
C28_OneAnalysisAtATime ==
  [][ /\ Len(client.analyzeRequests) <= 1
      /\ Len(client'.analyzeRequests) <= 1
      /\ (client.isAnalyzing <=> Len(client.analyzeRequests) = 1)
      /\ Len(client'.analyzeRequests) < Len(client.analyzeRequests)
           => (~client'.isAnalyzing /\ ~client'.analyzeBtnDisabled) ]_vars

\* a file was picked while an analysis was going on, which enabled the
\* analyze button again, and the analysis is still the only one
C28_Witness ==
  /\ client.isAnalyzing
  /\ ~client.analyzeBtnDisabled
  /\ Len(client.analyzeRequests) = 1
  /\ client.selectedFile # Head(client.analyzeRequests)

\* C29 (as claimed): currentAnalysis, when not null, is the result of
\* analysing the selected file, and every request to /api/generate-report
\* was sent from an analysis with puedeGenerarInforme true.
C29_AnalysisOfSelectedFile ==
  /\ client.currentAnalysis.exists => client.currentAnalysis.file = client.selectedFile
  /\ \A i \in 1..Len(client.reportRequests) :
        client.reportRequests[i].exists /\ client.reportRequests[i].puedeGenerarInforme

\* C30 (as claimed): after any additions to the demo store, the studies of
\* every patient are in the order of their dates, newest first, and no two
\* patient records have the same patientId.
C30_StudiesNewestFirst ==
  /\ \A i \in 1..Len(patients) :
        \A j \in 1..(Len(patients[i].studies) - 1) :
          patients[i].studies[j].studyDate >= patients[i].studies[j + 1].studyDate
  /\ \A i, k \in 1..Len(patients) :
        patients[i].patientId = patients[k].patientId => i = k

====
